---- MODULE Spec2Model ----
(***************************************************************************)
(* Model of the Janus signalling client of janus.py: JanusSession (create, *)
(* attach, destroy, the _poll task) and JanusPlugin (send).                *)
(*                                                                         *)
(* All coroutines share one asyncio event loop, so the code between two    *)
(* awaits is one atomic action.  A coroutine is suspended only while an    *)
(* HTTP request is in flight or while it waits in Queue.get().  The        *)
(* gateway is the environment: every reply it can give is an input.        *)
(***************************************************************************)
EXTENDS Integers, Sequences, FiniteSets, TLC

\* ---------------------------------------------------------------- bounds
\* Number of create() calls in one behaviour of Spec.
MaxCreates == 1
\* Number of create() calls in one behaviour of SpecAgain.
MaxCreatesAgain == 2
\* Number of events waiting in the inboxes, all handles together, beyond which
\* the gateway holds further events back.
MaxQueued == 2

\* ------------------------------------------------------------- universes
\* Plugin ids the gateway assigns on attach (the two handles P10 and P20).
PluginIds == {10, 20}
\* A sender id for which no handle is ever registered.
UnknownSender == 99
\* An event that carries no "sender" key.
NoSender == 0
\* transaction_id(): 12 random ASCII letters; two calls may draw the same.
Tokens == {"T1", "T2"}
\* The transaction of a message that is not an event, and of no call.
NoTxn == "none"
\* Concurrent callers of send() on one handle.
Callers == {"a", "b"}

\* Decoded JSON bodies the long-poll GET can return.
Event(s, x) == [janus |-> "event", sender |-> s, transaction |-> x]
KeepAlive == [janus |-> "keepalive", sender |-> NoSender, transaction |-> NoTxn]
NoMsg == [janus |-> "nothing", sender |-> NoSender, transaction |-> NoTxn]
Events == {Event(s, x) : s \in PluginIds, x \in Tokens}
\* An event of a sender that has no handle (its transaction is never read).
Orphan == Event(UnknownSender, "T1")
\* An event without a "sender" key.
Malformed == Event(NoSender, NoTxn)
\* "fail" stands for a request that raises (connection error, bad JSON).
GetFail == [janus |-> "fail", sender |-> NoSender, transaction |-> NoTxn]
PollReplies == Events \cup {Orphan, Malformed, KeepAlive, GetFail}
\* Synchronous replies to a POST: the expected one, another one, an exception.
PostReplies == {"ok", "error", "fail"}

VARIABLES
    http,         \* JanusSession._http: 0 is None, else index into clients
    poll_task,    \* JanusSession._poll_task: 0 is None, else index into tasks
    plugins,      \* JanusSession._plugins: the registered plugin ids
    session_url,  \* JanusSession._session_url: 0 is None, else the session id
    clients,      \* every aiohttp.ClientSession created: "open" or "closed"
    tasks,        \* every _poll task created: "new", "polling", "cancelled", "failed"
    url,          \* JanusPlugin._url of each handle: the session id it was built from
    queue,        \* JanusPlugin._queue of each handle
    send,         \* the send() calls in progress, per handle and caller
    call,         \* the create/attach/destroy call in progress
    last,         \* what the last step did (history, read by no action)
    pipelined     \* TRUE once two send() calls overlapped on one handle

vars == <<http, poll_task, plugins, session_url, clients, tasks, url, queue,
          send, call, last, pipelined>>

sessionVars == <<http, poll_task, plugins, session_url, clients, tasks, url>>

Idle == [st |-> "idle", token |-> NoTxn]

\* The record of a step: which operation, how it went, for a send() the handle
\* and the token, and the message taken from the inbox or from the GET.
Did(act, res, p, token, item) ==
    [act |-> act, res |-> res, p |-> p, token |-> token, item |-> item]
Op(act, res) == Did(act, res, 0, NoTxn, NoMsg)
\* A step that only suspends a coroutine on a request.
Suspended == Op("suspend", "posted")

Init ==
    /\ http = 0
    /\ poll_task = 0
    /\ plugins = {}
    /\ session_url = 0
    /\ clients = <<>>
    /\ tasks = <<>>
    /\ url = [p \in PluginIds |-> 0]
    /\ queue = [p \in PluginIds |-> <<>>]
    /\ send = [p \in PluginIds |-> [c \in Callers |-> Idle]]
    /\ call = "idle"
    /\ last = Op("init", "ok")
    /\ pipelined = FALSE

\* A poll task that has not ended.
Running(t) == tasks[t] \in {"new", "polling"}

\* ------------------------------------------------------ JanusSession.create
\* create() up to its await: a new ClientSession replaces _http, POST "create".
CreateCall(limit) ==
    /\ call = "idle"
    /\ Len(clients) < limit
    /\ clients' = Append(clients, "open")
    /\ http' = Len(clients) + 1
    /\ call' = "create"
    /\ last' = Suspended
    /\ UNCHANGED <<poll_task, plugins, session_url, tasks, url, queue, send, pipelined>>

\* The session id of the gateway's reply.
SessionIds == {1}

\* Variant: the reply is not checked; what follows the assert always runs.
CreateReplyUnchecked(r, sid) ==
    /\ call = "create"
    /\ call' = "idle"
    /\ session_url' = sid
    /\ tasks' = Append(tasks, "new")
    /\ poll_task' = Len(tasks) + 1
    /\ last' = Op("create", IF r = "ok" THEN "ok" ELSE "error")
    /\ UNCHANGED <<http, plugins, clients, url, queue, send, pipelined>>

\* create() after its await: on success set _session_url and start _poll.
CreateReply(r, sid) ==
    /\ call = "create"
    /\ call' = "idle"
    /\ IF r = "ok"
       THEN /\ session_url' = sid
            /\ tasks' = Append(tasks, "new")
            /\ poll_task' = Len(tasks) + 1
            /\ last' = Op("create", "ok")
       ELSE /\ last' = Op("create", "error")
            /\ UNCHANGED <<session_url, tasks, poll_task>>
    /\ UNCHANGED <<http, plugins, clients, url, queue, send, pipelined>>

\* ------------------------------------------------------ JanusSession.attach
\* attach() up to its await.  self._http.post(self._session_url, ...) raises
\* before any request is made when _http is None or the URL is None.
AttachCall ==
    /\ call = "idle"
    /\ IF http = 0 \/ session_url = 0
       THEN /\ last' = Op("attach", "error")
            /\ UNCHANGED call
       ELSE /\ call' = "attach"
            /\ last' = Suspended
    /\ UNCHANGED <<sessionVars, queue, send, pipelined>>

\* attach() after its await: on success build a JanusPlugin with an empty
\* queue and register it under the plugin id of the reply.  The gateway
\* hands out an id it has not handed out before.
AttachReply(r, pid) ==
    /\ call = "attach"
    /\ r = "ok" => pid \notin plugins
    /\ call' = "idle"
    /\ IF r = "ok" /\ session_url # 0
       THEN /\ plugins' = plugins \cup {pid}
            /\ url' = [url EXCEPT ![pid] = session_url]
            /\ queue' = [queue EXCEPT ![pid] = <<>>]
            /\ last' = Did("attach", "ok", pid, NoTxn, NoMsg)
       ELSE /\ last' = Op("attach", "error")
            /\ UNCHANGED <<plugins, url, queue>>
    /\ UNCHANGED <<http, poll_task, session_url, clients, tasks, send, pipelined>>

\* ----------------------------------------------------- JanusSession.destroy
\* Task.cancel(): a task that has not ended ends with CancelledError at its
\* next step; a task that has ended is left as it is.
Cancel(ts, t) ==
    IF ts[t] \in {"new", "polling"} THEN [ts EXCEPT ![t] = "cancelled"] ELSE ts

\* Variant: the transport is closed but _http keeps pointing at it.
CloseHttpKeep ==
    /\ clients' = [clients EXCEPT ![http] = "closed"]
    /\ UNCHANGED http

\* Variant: the transport is dropped without being closed.
CloseHttpDrop ==
    /\ http' = 0
    /\ UNCHANGED clients

\* The last step of destroy(): close the transport if there is one.
CloseHttp ==
    IF http # 0
    THEN /\ clients' = [clients EXCEPT ![http] = "closed"]
         /\ http' = 0
    ELSE UNCHANGED <<clients, http>>

\* destroy() up to its await: cancel and clear the poll task; with a session
\* URL, POST "destroy" and suspend; without one, go on to close the transport.
DestroyCall ==
    /\ call = "idle"
    /\ IF poll_task # 0
       THEN /\ tasks' = Cancel(tasks, poll_task)
            /\ poll_task' = 0
       ELSE UNCHANGED <<tasks, poll_task>>
    /\ IF session_url # 0
       THEN IF http = 0
            THEN /\ last' = Op("destroy", "error")
                 /\ UNCHANGED <<call, clients, http>>
            ELSE /\ call' = "destroy"
                 /\ last' = Suspended
                 /\ UNCHANGED <<clients, http>>
       ELSE /\ CloseHttp
            /\ last' = Op("destroy", "ok")
            /\ UNCHANGED call
    /\ UNCHANGED <<plugins, session_url, url, queue, send, pipelined>>

\* destroy() after its await: the assert on the reply, then clear the session
\* URL and close the transport.  A failed request or assert leaves destroy()
\* at that line.
DestroyReply(r) ==
    /\ call = "destroy"
    /\ call' = "idle"
    /\ IF r = "ok"
       THEN /\ session_url' = 0
            /\ CloseHttp
            /\ last' = Op("destroy", "ok")
       ELSE /\ last' = Op("destroy", "error")
            /\ UNCHANGED <<session_url, clients, http>>
    /\ UNCHANGED <<poll_task, plugins, tasks, url, queue, send, pipelined>>

\* --------------------------------------------------------- JanusPlugin.send
\* Variant: the acknowledgment is not looked at.
AckAny(r) == TRUE

\* assert data["janus"] == "ack"
AckOk(r) == r = "ok"

\* Variant: the item is accepted when it answers any call waiting on the
\* handle, as with the token kept on the handle instead of in the call.
TransactionOfAnyCall(item, token) ==
    \E c \in Callers :
        /\ send[item.sender][c].st = "waiting"
        /\ send[item.sender][c].token = item.transaction

\* Variant: the transaction is compared with the wrong field of the message.
TransactionNever(item, token) == item.janus = token

\* Variant: the transaction of the item is not compared.
TransactionAny(item, token) == TRUE

\* assert response["transaction"] == message["transaction"]
TransactionMatches(item, token) == item.transaction = token

\* Variant: one queue, the one of the first handle, serves every handle.
InboxShared(p) == CHOOSE q \in PluginIds : TRUE

\* The queue a send() on handle p reads: its own, self._queue.
Inbox(p) == p

\* Variant: the item taken is put back at the end of the queue.
AfterGetRequeue(q) == Append(Tail(q), Head(q))

\* What Queue.get() leaves in the queue.
AfterGet(q) == Tail(q)

\* send() up to its await: draw a transaction id and POST the message.
\* self._session._http.post raises at once when _http is None.
SendCall(p, c, tok) ==
    /\ p \in plugins
    /\ send[p][c].st = "idle"
    /\ IF http = 0
       THEN /\ last' = Did("send", "nohttp", p, NoTxn, NoMsg)
            /\ UNCHANGED <<send, pipelined>>
       ELSE /\ send' = [send EXCEPT ![p][c] = [st |-> "posting", token |-> tok]]
            /\ pipelined' = (pipelined \/ \E d \in Callers \ {c} : send[p][d].st # "idle")
            /\ last' = Suspended
    /\ UNCHANGED <<sessionVars, queue, call>>

\* send() after the POST: the assert on the acknowledgment, then Queue.get().
SendReply(p, c, r) ==
    /\ send[p][c].st = "posting"
    /\ IF AckOk(r)
       THEN /\ send' = [send EXCEPT ![p][c].st = "waiting"]
            /\ last' = Suspended
       ELSE /\ send' = [send EXCEPT ![p][c] = Idle]
            /\ last' = Did("send", "nack", p, NoTxn, NoMsg)
    /\ UNCHANGED <<sessionVars, queue, call, pipelined>>

\* send() after Queue.get(): the item is out of the queue; return it if its
\* transaction is the one of this call, else the assert ends the call.
SendTake(p, c) ==
    LET q == Inbox(p)
        item == Head(queue[q])
        token == send[p][c].token
    IN /\ send[p][c].st = "waiting"
       /\ queue[q] # <<>>
       /\ queue' = [queue EXCEPT ![q] = AfterGet(queue[q])]
       /\ send' = [send EXCEPT ![p][c] = Idle]
       /\ last' = Did("send",
                      IF TransactionMatches(item, token) THEN "returned" ELSE "mismatch",
                      p, token, item)
       /\ UNCHANGED <<sessionVars, call, pipelined>>

\* ------------------------------------------------------- JanusSession._poll
\* Variant: a handle is found only while a send() waits on it.
LookupWaiting(plugs, sender) ==
    IF sender \in plugs /\ \E c \in Callers : send[sender][c].st = "waiting"
    THEN sender
    ELSE 0

\* Variant: the sender is not used to pick the handle.
LookupAny(plugs, sender) == IF plugs = {} THEN 0 ELSE CHOOSE p \in plugs : TRUE

\* self._plugins.get(data["sender"], None): 0 stands for None.
Lookup(plugs, sender) == IF sender \in plugs THEN sender ELSE 0

\* Variant: self._plugins[data["sender"]], which raises for an unknown sender.
RaisesOnUnknown(m) ==
    m = GetFail \/ (m.janus = "event" /\ m.sender \notin plugins)

\* Variant: data["sender"] is read before the kind of the message is tested.
RaisesOnNonEvent(m) == m = GetFail \/ m.sender = NoSender

\* Does handling this reply raise?  The request or its JSON decoding fails,
\* or data["sender"] is missing from an event.
Raises(m) == m = GetFail \/ (m.janus = "event" /\ m.sender = NoSender)

\* The next self._http.get(self._session_url, ...) of the loop: it raises
\* when _http or the URL is None, else the task is suspended on the request.
NextGet == IF http = 0 \/ session_url = 0 THEN "failed" ELSE "polling"

\* An event of a sender with no registered handle.
IsOrphan(m) == m.janus = "event" /\ m.sender # NoSender /\ Lookup(plugins, m.sender) = 0

\* Number of events waiting in all inboxes.
RECURSIVE Queued(_)
Queued(ps) ==
    IF ps = {} THEN 0
    ELSE LET p == CHOOSE x \in ps : TRUE IN Len(queue[p]) + Queued(ps \ {p})

\* The first step of a poll task: enter the loop and issue the first GET.
PollStart(t) ==
    /\ tasks[t] = "new"
    /\ tasks' = [tasks EXCEPT ![t] = NextGet]
    /\ last' = Suspended
    /\ UNCHANGED <<http, poll_task, plugins, session_url, clients, url, queue,
                   send, call, pipelined>>

\* One turn of the loop: the reply m of the GET in flight arrives; an event
\* for a registered sender is put in that handle's queue; then the next GET.
PollRecv(t, m) ==
    LET target == IF m.janus = "event" /\ ~Raises(m) THEN Lookup(plugins, m.sender) ELSE 0
    IN /\ tasks[t] = "polling"
       /\ target # 0 => Queued(PluginIds) < MaxQueued
       /\ queue' = IF target # 0
                   THEN [queue EXCEPT ![target] = Append(@, m)]
                   ELSE queue
       /\ tasks' = [tasks EXCEPT ![t] = IF Raises(m) THEN "failed" ELSE NextGet]
       /\ last' = Did("poll", IF Raises(m) THEN "raised" ELSE "got", 0, NoTxn, m)
       /\ UNCHANGED <<http, poll_task, plugins, session_url, clients, url,
                      send, call, pipelined>>

\* ------------------------------------------------------------ specification
\* Callers of send() that use a handle one call at a time.
OneAtATime == {"a"}

\* One session object, created at most MaxCreates times.
Next ==
    \/ CreateCall(MaxCreates)
    \/ \E r \in PostReplies, sid \in SessionIds : CreateReply(r, sid)
    \/ AttachCall
    \/ \E r \in PostReplies, pid \in PluginIds : AttachReply(r, pid)
    \/ DestroyCall
    \/ \E r \in PostReplies : DestroyReply(r)
    \/ \E p \in PluginIds, c \in OneAtATime, tok \in Tokens : SendCall(p, c, tok)
    \/ \E p \in PluginIds, c \in OneAtATime, r \in PostReplies : SendReply(p, c, r)
    \/ \E p \in PluginIds, c \in OneAtATime : SendTake(p, c)
    \/ \E t \in 1..Len(tasks) : PollStart(t)
    \/ \E t \in 1..Len(tasks), m \in PollReplies : PollRecv(t, m)

Spec == Init /\ [][Next]_vars

\* The same, with create() called up to MaxCreatesAgain times, with or
\* without a destroy() in between.
NextAgain ==
    \/ CreateCall(MaxCreatesAgain)
    \/ \E r \in PostReplies, sid \in SessionIds : CreateReply(r, sid)
    \/ AttachCall
    \/ \E r \in PostReplies, pid \in PluginIds : AttachReply(r, pid)
    \/ DestroyCall
    \/ \E r \in PostReplies : DestroyReply(r)
    \/ \E p \in PluginIds, c \in OneAtATime, tok \in Tokens : SendCall(p, c, tok)
    \/ \E p \in PluginIds, c \in OneAtATime, r \in PostReplies : SendReply(p, c, r)
    \/ \E p \in PluginIds, c \in OneAtATime : SendTake(p, c)
    \/ \E t \in 1..Len(tasks) : PollStart(t)
    \/ \E t \in 1..Len(tasks), m \in PollReplies : PollRecv(t, m)

SpecAgain == Init /\ [][NextAgain]_vars

\* A session with one handle, on which two callers send concurrently.
OneHandle == {CHOOSE p \in PluginIds : TRUE}

NextConc ==
    \/ CreateCall(MaxCreates)
    \/ \E r \in PostReplies, sid \in SessionIds : CreateReply(r, sid)
    \/ AttachCall
    \/ \E r \in PostReplies, pid \in OneHandle : AttachReply(r, pid)
    \/ DestroyCall
    \/ \E r \in PostReplies : DestroyReply(r)
    \/ \E p \in OneHandle, c \in Callers, tok \in Tokens : SendCall(p, c, tok)
    \/ \E p \in OneHandle, c \in Callers, r \in PostReplies : SendReply(p, c, r)
    \/ \E p \in OneHandle, c \in Callers : SendTake(p, c)
    \/ \E t \in 1..Len(tasks) : PollStart(t)
    \/ \E t \in 1..Len(tasks), m \in PollReplies : PollRecv(t, m)

SpecConc == Init /\ [][NextConc]_vars

\* The event loop runs a coroutine that is ready: a send() whose Queue.get()
\* has an item to take is resumed.  Nothing is assumed of the gateway.
Fairness ==
    \A p \in PluginIds : \A c \in OneAtATime : WF_vars(SendTake(p, c))

SpecFair == Init /\ [][Next]_vars /\ Fairness

\* ------------------------------------------------------------------- claims
Returned == last.act = "send" /\ last.res = "returned"

\* C1 (correlation): on a handle whose send() calls never overlapped, a send()
\* that returns returns an event whose transaction is the token drawn for
\* that very call.
C1_Correlation ==
    (Returned /\ ~pipelined) =>
        /\ last.item.janus = "event"
        /\ last.item.transaction = last.token

\* A send() on a handle used one call at a time has returned its event.
C1_Witness ==
    /\ Returned /\ ~pipelined
    /\ last.item.transaction = last.token
    /\ last.token \in Tokens

\* C2 (isolation): every item in the inbox of the handle registered for
\* plugin id p is a gateway event with sender p; a handle that is not
\* registered has nothing in its inbox.
C2_Isolation ==
    \A p \in PluginIds :
        /\ p \notin plugins => queue[p] = <<>>
        /\ \A i \in 1..Len(queue[p]) :
              queue[p][i].janus = "event" /\ queue[p][i].sender = p

\* Both handles are registered and each holds an event in its inbox.
C2_Witness ==
    /\ plugins = PluginIds
    /\ \A p \in PluginIds : queue[p] # <<>>

\* C3 (partial-failure teardown), as claimed: when destroy() ends because its
\* remote destroy call failed, no poll loop is left running and the transport
\* it held is closed and cleared.
C3_PartialFailureTeardown ==
    (last.act = "destroy" /\ last.res = "error") =>
        /\ poll_task = 0
        /\ \A t \in 1..Len(tasks) : ~Running(t)
        /\ http = 0
        /\ \A k \in 1..Len(clients) : clients[k] = "closed"

\* C4 (idempotent teardown), as claimed: a destroy() called right after a
\* destroy() ended issues no request, ends without error and leaves no poll
\* task, no session URL and no transport.
C4_IdempotentTeardown ==
    [][(last.act = "destroy" /\ DestroyCall) =>
          /\ call' = "idle"
          /\ last'.res = "ok"
          /\ poll_task' = 0
          /\ session_url' = 0
          /\ http' = 0
          /\ \A k \in 1..Len(clients) : clients'[k] = "closed"]_vars

C6_SessionActivity ==
    call = "idle" => ((session_url # 0) <=> (\E t \in 1..Len(tasks) : Running(t)))

\* C7 (one poll loop), as claimed: at most one poll task is running, and a
\* running poll task is the one the session's poll-task field refers to.
C7_OnePollLoop ==
    /\ Cardinality({t \in 1..Len(tasks) : Running(t)}) <= 1
    /\ \A t \in 1..Len(tasks) : Running(t) => poll_task = t

\* C8 (transaction mismatch): a send() that takes an item whose transaction is
\* not its own token ends with an error: the item is gone from the inbox, is
\* not returned, and the call waits for nothing more.
C8_MismatchIsError ==
    [][\A p \in PluginIds, c \in Callers :
          (SendTake(p, c) /\ Head(queue[p]).transaction # send[p][c].token) =>
              /\ last'.act = "send" /\ last'.res = "mismatch"
              /\ send'[p][c].st = "idle"
              /\ queue'[p] = Tail(queue[p])]_vars

\* A send() has just failed on an item of another transaction.
C8_Witness ==
    /\ last.act = "send" /\ last.res = "mismatch"
    /\ last.item.janus = "event"
    /\ last.item.transaction # last.token

\* C9 (bad acknowledgment): when the reply to the POST of send() is not the
\* acknowledgment, send() ends at once: no inbox changes, the call neither
\* waits on the inbox nor posts again.
C9_FailFastOnBadAck ==
    [][\A p \in PluginIds, c \in Callers, r \in PostReplies \ {"ok"} :
          SendReply(p, c, r) =>
              /\ last'.act = "send" /\ last'.res = "nack"
              /\ send'[p][c].st = "idle"
              /\ queue' = queue]_vars

\* A send() has just failed on its acknowledgment while its inbox held an event.
C9_Witness ==
    /\ last.act = "send" /\ last.res = "nack"
    /\ queue[last.p] # <<>>

\* C10 (independent handles): an event for handle p changes nothing of another
\* handle q; a send() on p that takes an item leaves q's inbox and q's calls
\* alone, and what it returns is the head of p's own inbox, sent by p, with
\* the token of that call.
C10_IndependentHandles ==
    [][\A p \in PluginIds : \A q \in PluginIds \ {p} :
          /\ \A t \in 1..Len(tasks), m \in Events :
                (m.sender = p /\ last'.item = m /\ PollRecv(t, m)) =>
                    queue'[q] = queue[q] /\ send' = send
          /\ \A c \in Callers :
                (last'.p = p /\ SendTake(p, c)) =>
                    /\ queue'[q] = queue[q]
                    /\ send'[q] = send[q]
                    /\ last'.res = "returned" =>
                          /\ last'.item = Head(queue[p])
                          /\ last'.item.sender = p
                          /\ last'.item.transaction = send[p][c].token]_vars

\* Both handles had a send() pending and an event each; the one on P10 has
\* returned its own event while the one on P20 is still waiting with its
\* event in its inbox.
C10_Witness ==
    /\ Returned /\ last.p = 10 /\ last.item.sender = 10
    /\ send[20]["a"].st = "waiting"
    /\ queue[20] # <<>> /\ Head(queue[20]).sender = 20

\* The session as a successful create() leaves it and no destroy() has touched it.
Active == http # 0 /\ session_url # 0 /\ poll_task # 0

\* C11 (attach only when Active), as claimed: an attach() on a session that is
\* not Active raises before any request is made and registers no handle.
C11_AttachOnlyWhenActive ==
    [][(AttachCall /\ ~Active) =>
          /\ call' = "idle"
          /\ last' = Op("attach", "error")
          /\ plugins' = plugins]_vars

\* C12 (destroy from non-Active states): on an Idle session destroy() makes no
\* request and changes no field of the session; after a create() that failed
\* before a session id was assigned it closes and clears the transport
\* without a request.
C12_DestroyFromNonActive ==
    [][/\ (DestroyCall /\ http = 0 /\ session_url = 0 /\ poll_task = 0) =>
             /\ call' = "idle"
             /\ last' = Op("destroy", "ok")
             /\ UNCHANGED sessionVars
       /\ (DestroyCall /\ http # 0 /\ session_url = 0 /\ poll_task = 0) =>
             /\ call' = "idle"
             /\ last' = Op("destroy", "ok")
             /\ http' = 0
             /\ clients' = [clients EXCEPT ![http] = "closed"]
             /\ UNCHANGED <<poll_task, plugins, session_url, tasks, url>>]_vars

\* destroy() has ended on a session whose create() had failed: the transport
\* is closed and cleared, no poll task was ever started.
C12_Witness ==
    /\ last = Op("destroy", "ok")
    /\ clients # <<>> /\ \A k \in 1..Len(clients) : clients[k] = "closed"
    /\ tasks = <<>>
    /\ http = 0 /\ session_url = 0 /\ poll_task = 0

\* C13 (the loop runs until cancelled), as claimed: while the session has its
\* transport and URL, a poll loop that stops has been cancelled; no reply to
\* the long-poll GET and no failed GET stops it.
C13_RunsUntilCancelled ==
    [][\A t \in 1..Len(tasks) :
          (http # 0 /\ session_url # 0 /\ Running(t) /\ ~Running(t)') =>
              tasks'[t] = "cancelled"]_vars

\* destroy() has run to its end and create() was not called since: the most
\* recent transport is closed, and the URL and the poll task are cleared.
Destroyed ==
    /\ clients # <<>> /\ clients[Len(clients)] = "closed"
    /\ session_url = 0 /\ poll_task = 0

\* C14 (a send() pending across teardown), as claimed: destroy() neither
\* completes nor fails a send() that waits on its inbox, and once the session
\* is torn down a send() waiting on an empty inbox stays so: no event is
\* delivered to it.
C14_PendingAcrossTeardown ==
    [][/\ (DestroyCall \/ \E r \in PostReplies : DestroyReply(r)) =>
             (send' = send /\ queue' = queue)
       /\ \A p \in PluginIds : \A c \in Callers :
             (Destroyed /\ send[p][c].st = "waiting" /\ queue[p] = <<>>) =>
                 (send'[p][c] = send[p][c] /\ queue'[p] = <<>>)]_vars

\* C15 (no transport use after destroy): once destroy() has completed, no
\* step issues a request: a send() or an attach() fails at once, destroy()
\* posts nothing, and a poll task neither starts nor renews a long-poll GET.
C15_NoTransportUseAfterDestroy ==
    [][Destroyed =>
          /\ \A p \in PluginIds : \A c \in Callers :
                send'[p][c].st = "posting" => send[p][c] = send'[p][c]
          /\ call' \in {"attach", "destroy"} => call = call'
          /\ \A t \in 1..Len(tasks) :
                /\ PollStart(t) => tasks'[t] # "polling"
                /\ \A m \in PollReplies : PollRecv(t, m) => tasks'[t] # "polling"]_vars

\* A send() made after destroy() completed has failed without a request.
C15_Witness ==
    /\ Destroyed
    /\ http = 0
    /\ tasks # <<>>
    /\ last.act = "send" /\ last.res = "nohttp"

\* C16 (a failed create() establishes nothing): when the reply to the create
\* POST is not a success or the POST fails, create() ends with an error,
\* _session_url is left as it was and no poll task is started.
C16_FailedCreate ==
    [][\A r \in PostReplies \ {"ok"} : \A sid \in SessionIds :
          CreateReply(r, sid) =>
              /\ last' = Op("create", "error")
              /\ call' = "idle"
              /\ session_url' = session_url
              /\ tasks' = tasks
              /\ poll_task' = poll_task]_vars

\* The first create() has failed: no URL, no poll task.
C16_Witness ==
    /\ last = Op("create", "error")
    /\ session_url = 0
    /\ poll_task = 0
    /\ tasks = <<>>

\* C17 (non-event messages are dropped): a reply whose kind is not "event"
\* changes no inbox and not the registry, raises nothing, and the loop of a
\* session that has its transport and URL issues its next long-poll GET.
C17_NonEventDropped ==
    [][\A t \in 1..Len(tasks) : \A m \in PollReplies \ {GetFail} :
          (m.janus # "event" /\ PollRecv(t, m)) =>
              /\ queue' = queue
              /\ plugins' = plugins
              /\ last' = Did("poll", "got", 0, NoTxn, m)
              /\ (http # 0 /\ session_url # 0) => tasks'[t] = "polling"]_vars

\* A keepalive was received and the loop is polling again.
C17_Witness ==
    /\ last = Did("poll", "got", 0, NoTxn, KeepAlive)
    /\ poll_task # 0
    /\ tasks[poll_task] = "polling"

\* The event carrying the token of the send() waiting on handle p is the next
\* item of p's inbox.
Answered(p, c) ==
    /\ send[p][c].st = "waiting"
    /\ queue[p] # <<>>
    /\ Head(queue[p]).transaction = send[p][c].token

C19_NoMismatchedResult ==
    /\ [](Returned =>
             /\ last.item.janus = "event"
             /\ last.item.transaction = last.token)
    /\ [][\A p \in PluginIds : \A c \in Callers :
             (/\ SendTake(p, c)
              /\ \E d \in Callers \ {c} : send[p][d].token = Head(queue[p]).transaction
              /\ send[p][c].token # Head(queue[p]).transaction) =>
                 /\ last' = Did("send", "mismatch", p, send[p][c].token, Head(queue[p]))
                 /\ send'[p][c] = Idle]_vars

\* A send() returned its own event while another call with another token was
\* waiting on the same handle.
C19_Witness ==
    /\ Returned /\ pipelined
    /\ last.item.transaction = last.token
    /\ \E d \in Callers :
          /\ send[last.p][d].st = "waiting"
          /\ send[last.p][d].token # last.token

\* C20 (unsolicited events are retained): an event whose sender is a
\* registered plugin id is appended to that handle's inbox whether or not a
\* send() is outstanding; an inbox changes only by such an append or by a
\* send() on that handle taking its first item, which is the item that send()
\* compares with its own token.
C20_UnsolicitedRetained ==
    [][\A p \in PluginIds :
          /\ \A t \in 1..Len(tasks) : \A m \in Events :
                (m.sender = p /\ p \in plugins /\ last'.item = m /\ PollRecv(t, m)) =>
                    queue'[p] = Append(queue[p], m)
          /\ queue'[p] # queue[p] =>
                \/ \E m \in Events : m.sender = p /\ queue'[p] = Append(queue[p], m)
                \/ \E c \in Callers :
                      /\ SendTake(p, c)
                      /\ queue'[p] = Tail(queue[p])
                      /\ last'.item = Head(queue[p])
                      /\ last'.token = send[p][c].token
                      /\ last'.res = IF Head(queue[p]).transaction = send[p][c].token
                                     THEN "returned" ELSE "mismatch"]_vars

\* An event was put in the inbox of a handle on which no send() is in progress.
C20_Witness ==
    \E p \in PluginIds :
        /\ p \in plugins
        /\ \A c \in Callers : send[p][c].st = "idle"
        /\ queue[p] # <<>>
        /\ last.act = "poll" /\ last.res = "got"
        /\ last.item = queue[p][Len(queue[p])]
====
